---- MODULE Spec2Model ----
(***************************************************************************)
(* Model of the pdf-parser repository.                                     *)
(*                                                                         *)
(* Part 1: the segmentation engine (lib/chunker: splitIntoSentences,       *)
(* hashContent, chunkText, chunkPages) and the token estimator             *)
(* (utils/tokenCounter: countTokens).                                      *)
(*                                                                         *)
(* A text is a sequence of one-character strings.  A token count is an     *)
(* integer.  overlapPercentage is held in tenths of a percent (12.5 is     *)
(* 125), so that Math.floor(tokenCount * (overlapPercentage / 100)) is the *)
(* integer division (tokenCount * overlapPercentage) \div 1000.            *)
(*                                                                         *)
(* Part 2: the fuzzy search (lib/fuzzySearch: levenshteinDistance,         *)
(* calculateSimilarity, generateQueryVariations, preprocessQuery,          *)
(* calculateSearchScore, sortSearchResults, filterSearchResults) and the   *)
(* search route (app/api/search/route: GET).                               *)
(*                                                                         *)
(* A score is held as an integer number of 1/ScoreScale points, so that    *)
(* similarity * 30 and score * 1.5 are exact.                              *)
(***************************************************************************)
EXTENDS Integers, Sequences, FiniteSets, TLC

VARIABLES
    pages,      \* argument of chunkPages: sequence of [pageNo, text]
    opts,       \* argument of chunkPages: [minTokens, maxTokens, overlapPercentage]
    pc,         \* "call" before chunkPages runs, "done" after it returned
    outcome,    \* how the call ended: "none" (not yet), "returned", "threw"
    allChunks,  \* the array chunkPages returned
    levStr1,    \* first argument of levenshteinDistance
    levStr2,    \* second argument of levenshteinDistance
    distance,   \* the number levenshteinDistance returned
    levPc,      \* "idle", "call" before levenshteinDistance runs, "done" after
    rawQuery,   \* GET: searchParams.get('q'), AbsentText when there is none
    documentId, \* GET: searchParams.get('documentId'), AbsentId when none
    threshold,  \* GET: threshold, in 1/ScoreScale points
    maxResults, \* GET: maxResults
    table,      \* the rows of doc_chunks
    settled,    \* GET: the strategies sent and what each settled to, in order
    response,   \* GET: the response sent, NoResponse before
    searchPc,   \* "idle", "request", "strategies", "responded"
    firstResponse, \* the response to the earlier of two requests
    docStatus,  \* documents.status of the document being parsed
    stored,     \* the rows of doc_chunks of that document
    storedAtStart, \* the rows stored when the current request was made
    runNo,      \* number of trigger-parse requests made so far
    parsePc,    \* where the current trigger-parse request stands
    runChunks,  \* serve: content_hash of each chunk of allChunks, in order
    batchStart, \* serve: the loop variable i of the insert loop
    edgeResponse,  \* status of the response of the edge function, 0 if none
    routeResponse, \* status of the response of trigger-parse, 0 if none
    setProcessing, \* this request has set the status to 'processing'
    insertFailed,  \* a batch insert of this run has returned an error
    readyRun,   \* the run whose update set the status to 'ready', 0 if none
    homeDocumentId, \* Home: documentId, 0 for null
    isProcessing,   \* Home: isProcessing
    isComplete,     \* Home: isComplete
    serverStatus,   \* documents.status of each document, as the polls read it
    uploads,        \* number of uploads completed; the ids given are 1, 2, ...
    polls,          \* the calls of pollStatus whose fetch has not resolved
    pollsIssued,    \* number of status requests issued so far
    mountNo,        \* number of times DocumentStatus was mounted
    errorSeenBy,    \* the mount whose poll last read status 'error', 0 if none
    observedReady   \* the documents for which a poll has read status 'ready'

chunkVars == <<pages, opts, pc, outcome, allChunks>>
levVars == <<levStr1, levStr2, distance, levPc>>
searchVars == <<rawQuery, documentId, threshold, maxResults, table, settled,
                response, searchPc, firstResponse>>
parseVars == <<docStatus, stored, storedAtStart, runNo, parsePc, runChunks, batchStart,
               edgeResponse, routeResponse, setProcessing, insertFailed,
               readyRun>>
homeVars == <<homeDocumentId, isProcessing, isComplete, serverStatus, uploads,
              polls, pollsIssued, mountNo, errorSeenBy, observedReady>>
vars == <<chunkVars, levVars, searchVars, parseVars, homeVars>>

----------------------------------------------------------------------------
(* Bounds of the inputs.                                                   *)

\* a document is made of at most MaxPieces pieces (see Pieces)
MaxPieces == 5
\* maxTokens ranges over 1..MaxTok
MaxTok == 3

----------------------------------------------------------------------------
(* utils/tokenCounter.ts                                                   *)

CHARS_PER_TOKEN == 4

\* Math.ceil(text.length / CHARS_PER_TOKEN), 0 for the empty text
countTokens(text) ==
    IF Len(text) = 0 THEN 0
    ELSE (Len(text) + CHARS_PER_TOKEN - 1) \div CHARS_PER_TOKEN

----------------------------------------------------------------------------
(* lib/chunker: splitIntoSentences                                         *)

\* the character class [.!?] of the sentence pattern
Terminators == {".", "!", "?"}

\* characters String.prototype.trim strips (those the inputs contain)
WhiteSpace == {" "}

\* last index of the maximal run, starting at p, of characters that are
\* all terminators (isTerm) or all non-terminators (~isTerm)
RECURSIVE RunEnd(_, _, _)
RunEnd(text, p, isTerm) ==
    IF p < Len(text) /\ ((text[p + 1] \in Terminators) = isTerm)
    THEN RunEnd(text, p + 1, isTerm)
    ELSE p

\* text.match(/[^.!?]+[.!?]+|[^.!?]+$/g) || [], scanning from index p:
\* a match cannot start on a terminator (the scan moves on by one);
\* otherwise [^.!?]+ takes the whole run of non-terminators and either
\* [.!?]+ takes the whole run of terminators after it, or the run ends the
\* text and the second alternative matches it
RECURSIVE MatchSentences(_, _)
MatchSentences(text, p) ==
    IF p > Len(text) THEN <<>>
    ELSE IF text[p] \in Terminators THEN MatchSentences(text, p + 1)
    ELSE LET q == RunEnd(text, p, FALSE) IN
         IF q = Len(text) THEN <<SubSeq(text, p, q)>>
         ELSE LET r == RunEnd(text, q + 1, TRUE) IN
              <<SubSeq(text, p, r)>> \o MatchSentences(text, r + 1)

\* String.prototype.trim
RECURSIVE trim(_)
trim(s) ==
    IF s = <<>> THEN s
    ELSE IF Head(s) \in WhiteSpace THEN trim(Tail(s))
    ELSE IF s[Len(s)] \in WhiteSpace THEN trim(SubSeq(s, 1, Len(s) - 1))
    ELSE s

\* sentences.map(s => s.trim()).filter(s => s.length > 0)
splitIntoSentences(text) ==
    LET m == MatchSentences(text, 1)
        trimmed == [k \in 1..Len(m) |-> trim(m[k])]
    IN SelectSeq(trimmed, LAMBDA s : Len(s) > 0)

----------------------------------------------------------------------------
(* lib/chunker: hashContent, chunkText                                     *)

\* SHA-256 hex digest of the content, modelled as collision free: equal
\* contents have equal digests and different contents different digests
hashContent(content) == <<"sha256", content>>

\* Array.prototype.join(' ')
RECURSIVE join(_)
join(ss) ==
    IF ss = <<>> THEN <<>>
    ELSE IF Len(ss) = 1 THEN ss[1]
    ELSE ss[1] \o <<" ">> \o join(Tail(ss))

\* position of a chunk saved before the end of the page text
positionOnOverflow(chunkIndex) == IF chunkIndex = 0 THEN "start" ELSE "middle"

\* variant: a page text of one chunk is marked as its start
positionOnLast_startWhenFirst(chunkIndex) ==
    IF chunkIndex = 0 THEN "start" ELSE "end"

\* position of the chunk saved with the last sentence of the page text
positionOnLast(chunkIndex) == "end"

\* variant: off by one in the comparison
hasOverlap_offByOne(chunkIndex) == chunkIndex >= 0

\* meta.has_overlap
hasOverlap(chunkIndex) == chunkIndex > 0

\* The record pushed on chunks.  sentences and seed are history fields of
\* the model (the code keeps only the joined content): the sentence array
\* the chunk was joined from and how many of its leading sentences are the
\* overlap taken from the chunk before it.
makeChunk(currentChunk, pageNo, chunkIndex, position, seed) ==
    LET chunkContent == join(currentChunk)
        tokenCount == countTokens(chunkContent)
    IN [content |-> chunkContent,
        token_count |-> tokenCount,
        page_no |-> pageNo,
        chunk_index |-> chunkIndex,
        meta |-> [page_no |-> pageNo,
                  chunk_index |-> chunkIndex,
                  position |-> position,
                  has_overlap |-> hasOverlap(chunkIndex)],
        content_hash |-> hashContent(chunkContent),
        sentences |-> currentChunk,
        seed |-> seed]

\* Math.floor(tokenCount * (opts.overlapPercentage / 100))
overlapTokenTarget(tokenCount, overlapPercentage) ==
    (tokenCount * overlapPercentage) \div 1000

\* variant: the loop goes on while the target is not exceeded
overlapContinues_inclusive(j, overlapTokens, target) ==
    j >= 1 /\ overlapTokens <= target

\* the guard of the backward loop over currentChunk
overlapContinues(j, overlapTokens, target) == j >= 1 /\ overlapTokens < target

\* for (j = currentChunk.length - 1; j >= 0 && overlapTokens < target; j--)
\*   { overlapSentences.unshift(currentChunk[j]); overlapTokens += ... }
\* (j is the 1-based index here)
RECURSIVE overlapLoop(_, _, _, _)
overlapLoop(currentChunk, j, target, acc) ==
    IF overlapContinues(j, acc.overlapTokens, target)
    THEN overlapLoop(currentChunk, j - 1, target,
            [overlapSentences |-> <<currentChunk[j]>> \o acc.overlapSentences,
             overlapTokens |-> acc.overlapTokens + countTokens(currentChunk[j])])
    ELSE acc

createOverlap(currentChunk, target) ==
    overlapLoop(currentChunk, Len(currentChunk), target,
                [overlapSentences |-> <<>>, overlapTokens |-> 0])

\* "save current chunk": push the chunk, seed the next one with the overlap
saveOnOverflow(st, pageNo, o) ==
    LET c == makeChunk(st.currentChunk, pageNo, st.chunkIndex,
                       positionOnOverflow(st.chunkIndex), st.seed)
        ov == createOverlap(st.currentChunk,
                  overlapTokenTarget(c.token_count, o.overlapPercentage))
    IN [chunks |-> Append(st.chunks, c),
        currentChunk |-> ov.overlapSentences,
        currentTokens |-> ov.overlapTokens,
        chunkIndex |-> st.chunkIndex + 1,
        seed |-> Len(ov.overlapSentences)]

\* variant: the sentence that made the chunk overflow is not carried over
addSentence_dropAfterSave(st, sentence, sentenceTokens) ==
    IF st.chunkIndex > 0 /\ Len(st.currentChunk) = st.seed THEN st
    ELSE [st EXCEPT !.currentChunk = Append(@, sentence),
                    !.currentTokens = @ + sentenceTokens]

\* currentChunk.push(sentence); currentTokens += sentenceTokens
addSentence(st, sentence, sentenceTokens) ==
    [st EXCEPT !.currentChunk = Append(@, sentence),
               !.currentTokens = @ + sentenceTokens]

\* the condition under which the current chunk is saved before the sentence
overflows(st, sentenceTokens, o) ==
    /\ st.currentTokens + sentenceTokens > o.maxTokens
    /\ Len(st.currentChunk) > 0

\* one iteration of the loop over the sentences
loopBody(st, sentence, isLast, pageNo, o) ==
    LET sentenceTokens == countTokens(sentence)
        s1 == IF overflows(st, sentenceTokens, o)
              THEN saveOnOverflow(st, pageNo, o)
              ELSE st
        s2 == addSentence(s1, sentence, sentenceTokens)
    IN IF isLast /\ Len(s2.currentChunk) > 0
       THEN [s2 EXCEPT !.chunks = Append(@,
                makeChunk(s2.currentChunk, pageNo, s2.chunkIndex,
                          positionOnLast(s2.chunkIndex), s2.seed))]
       ELSE s2

RECURSIVE chunkLoop(_, _, _, _, _)
chunkLoop(st, sentences, i, pageNo, o) ==
    IF i > Len(sentences) THEN st
    ELSE chunkLoop(loopBody(st, sentences[i], i = Len(sentences), pageNo, o),
                   sentences, i + 1, pageNo, o)

\* chunkText(text, pageNo, options): the chunks of one page, indexed from 0
chunkText(text, pageNo, o) ==
    LET sentences == splitIntoSentences(text) IN
    IF Len(sentences) = 0 THEN <<>>
    ELSE chunkLoop([chunks |-> <<>>, currentChunk |-> <<>>,
                    currentTokens |-> 0, chunkIndex |-> 0, seed |-> 0],
                   sentences, 1, pageNo, o).chunks

----------------------------------------------------------------------------
(* lib/chunker: chunkPages                                                 *)

\* variant: meta.chunk_index keeps the page-local index
globalise_staleMeta(chunk, globalChunkIndex) ==
    [chunk EXCEPT !.chunk_index = globalChunkIndex]

\* { ...chunk, chunk_index: g, meta: { ...chunk.meta, chunk_index: g } }
globalise(chunk, globalChunkIndex) ==
    [chunk EXCEPT !.chunk_index = globalChunkIndex,
                  !.meta.chunk_index = globalChunkIndex]

RECURSIVE pagesLoop(_, _, _, _)
pagesLoop(ps, k, o, acc) ==
    IF k > Len(ps) THEN acc
    ELSE LET pageChunks == chunkText(ps[k].text, ps[k].pageNo, o)
             n == Len(acc)
         IN pagesLoop(ps, k + 1, o,
                acc \o [x \in 1..Len(pageChunks) |->
                          globalise(pageChunks[x], n + x - 1)])

chunkPages(ps, o) == pagesLoop(ps, 1, o, <<>>)

----------------------------------------------------------------------------
(* Inputs.  A document is written as a sequence of pieces; the piece       *)
(* PageBreak ends a page, every other piece is text of the current page.   *)

PageBreak == <<"PAGEBREAK">>

Pieces == { <<"a">>, <<"a", "a", "a", "a">>, <<".">>, <<" ">>, PageBreak }

RawDocs == UNION { [1..n -> Pieces] : n \in 0..MaxPieces }

RECURSIVE pageTexts(_)
pageTexts(raw) ==
    IF raw = <<>> THEN << <<>> >>
    ELSE LET rest == pageTexts(Tail(raw)) IN
         IF Head(raw) = PageBreak THEN << <<>> >> \o rest
         ELSE << Head(raw) \o Head(rest) >> \o Tail(rest)

\* pages numbered from 1 in order, as the callers of chunkPages build them
asPages(raw) ==
    LET t == pageTexts(raw) IN
    [k \in 1..Len(t) |-> [pageNo |-> k, text |-> t[k]]]

\* overlapPercentage: 0%, 50% and 100% (the default 12.5% gives the target 0
\* for every chunk of fewer than 8 tokens, as 0% does)
OverlapChoices == {0, 500, 1000}

\* minTokens: below every maxTokens, and above or equal to some
MinTokensChoices == {1, 2}

Options == [minTokens : MinTokensChoices, maxTokens : 1..MaxTok,
            overlapPercentage : OverlapChoices]

----------------------------------------------------------------------------
(* lib/fuzzySearch: characters and strings                                 *)

LowerCase == <<"a", "b", "c", "d", "e", "f", "g", "h", "i", "j", "k", "l", "m",
               "n", "o", "p", "q", "r", "s", "t", "u", "v", "w", "x", "y", "z">>

UpperCase == <<"A", "B", "C", "D", "E", "F", "G", "H", "I", "J", "K", "L", "M",
               "N", "O", "P", "Q", "R", "S", "T", "U", "V", "W", "X", "Y", "Z">>

Digits == {"0", "1", "2", "3", "4", "5", "6", "7", "8", "9"}

Range(f) == { f[x] : x \in DOMAIN f }

UpperChars == Range(UpperCase)

\* the class \w of the regular expressions
WordChars == Range(LowerCase) \cup UpperChars \cup Digits \cup {"_"}

\* String.prototype.toLowerCase
toLowerCase(s) ==
    [x \in 1..Len(s) |->
        IF s[x] \in UpperChars
        THEN LowerCase[CHOOSE k \in DOMAIN UpperCase : UpperCase[k] = s[x]]
        ELSE s[x]]

\* s.replace(/[^\w\s]/g, ' ')
replaceNonWord(s) ==
    [x \in 1..Len(s) |->
        IF s[x] \in WordChars \cup WhiteSpace THEN s[x] ELSE " "]

\* last index of the run of white space that starts at p
RECURSIVE spaceRunEnd(_, _)
spaceRunEnd(s, p) ==
    IF p < Len(s) /\ s[p + 1] \in WhiteSpace THEN spaceRunEnd(s, p + 1)
    ELSE p

\* s.replace(/\s+/g, ' ')
RECURSIVE collapseSpaces(_)
collapseSpaces(s) ==
    IF s = <<>> THEN <<>>
    ELSE IF Head(s) \in WhiteSpace
    THEN LET e == spaceRunEnd(s, 1) IN
         <<" ">> \o collapseSpaces(SubSeq(s, e + 1, Len(s)))
    ELSE <<Head(s)>> \o collapseSpaces(Tail(s))

\* s.split(/\s+/): the pieces between the runs of white space, the empty
\* pieces at either end included
RECURSIVE splitSpaces(_, _)
splitSpaces(s, piece) ==
    IF s = <<>> THEN <<piece>>
    ELSE IF Head(s) \in WhiteSpace
    THEN LET e == spaceRunEnd(s, 1) IN
         <<piece>> \o splitSpaces(SubSeq(s, e + 1, Len(s)), <<>>)
    ELSE splitSpaces(Tail(s), Append(piece, Head(s)))

\* hay.includes(needle)
includes(hay, needle) ==
    \E p \in 1..(Len(hay) - Len(needle) + 1) :
        SubSeq(hay, p, p + Len(needle) - 1) = needle

\* s.endsWith(suffix)
endsWith(s, suffix) ==
    /\ Len(s) >= Len(suffix)
    /\ SubSeq(s, Len(s) - Len(suffix) + 1, Len(s)) = suffix

\* array.filter(keep), keep given as the set of the elements kept
RECURSIVE filterSeq(_, _)
filterSeq(ss, keep) ==
    IF ss = <<>> THEN <<>>
    ELSE IF Head(ss) \in keep THEN <<Head(ss)>> \o filterSeq(Tail(ss), keep)
    ELSE filterSeq(Tail(ss), keep)

\* Array.from(new Set(ss)): first occurrences, in order
RECURSIVE distinctInOrder(_, _)
distinctInOrder(ss, seen) ==
    IF ss = <<>> THEN <<>>
    ELSE IF Head(ss) \in seen THEN distinctInOrder(Tail(ss), seen)
    ELSE <<Head(ss)>> \o distinctInOrder(Tail(ss), seen \cup {Head(ss)})

----------------------------------------------------------------------------
(* lib/fuzzySearch: levenshteinDistance, calculateSimilarity               *)

Min3(x, y, z) ==
    IF x <= y /\ x <= z THEN x ELSE IF y <= z THEN y ELSE z

\* variant: a substitution costs nothing
substitutionCost_free(c1, c2) == 0

\* const cost = str1[i - 1] === str2[j - 1] ? 0 : 1
substitutionCost(c1, c2) == IF c1 = c2 THEN 0 ELSE 1

\* row j of the matrix from row j - 1; cell i of a row is element i + 1
RECURSIVE levRow(_, _, _, _)
levRow(prev, str1, c2, acc) ==
    IF Len(acc) = Len(str1) + 1 THEN acc
    ELSE LET i == Len(acc) IN
         levRow(prev, str1, c2,
                Append(acc, Min3(acc[i] + 1,
                                 prev[i + 1] + 1,
                                 prev[i] + substitutionCost(str1[i], c2))))

RECURSIVE levRows(_, _, _, _)
levRows(prev, str1, str2, j) ==
    IF j > Len(str2) THEN prev
    ELSE levRows(levRow(prev, str1, str2[j], <<j>>), str1, str2, j + 1)

\* variant: characters are compared position by position, and the
\* characters one string has beyond the other are counted
levenshteinDistance_positional(str1, str2) ==
    LET short == IF Len(str1) < Len(str2) THEN Len(str1) ELSE Len(str2)
        long == IF Len(str1) < Len(str2) THEN Len(str2) ELSE Len(str1)
    IN Cardinality({ x \in 1..short : str1[x] # str2[x] }) + (long - short)

\* levenshteinDistance(str1, str2): matrix[str2.length][str1.length]
levenshteinDistance(str1, str2) ==
    levRows([x \in 1..(Len(str1) + 1) |-> x - 1], str1, str2, 1)[Len(str1) + 1]

Max(x, y) == IF x >= y THEN x ELSE y

\* calculateSimilarity(str1, str2), as the fraction num / den
calculateSimilarity(str1, str2) ==
    LET l1 == toLowerCase(str1)
        l2 == toLowerCase(str2)
        maxLength == Max(Len(l1), Len(l2))
    IN IF maxLength = 0 THEN [num |-> 1, den |-> 1]
       ELSE [num |-> maxLength - levenshteinDistance(l1, l2),
             den |-> maxLength]

----------------------------------------------------------------------------
(* lib/fuzzySearch: generateQueryVariations, preprocessQuery               *)

\* words.filter(w => w.length > minLength - 1), here w.length > 0
nonEmpty(ss) == filterSeq(ss, { w \in Range(ss) : Len(w) > 0 })

\* the suffixes of /(ing|ed|er|est|ly|s)$/; no one of them ends another, so
\* at most one matches at the end of a word
Suffixes == { <<"i", "n", "g">>, <<"e", "d">>, <<"e", "r">>,
              <<"e", "s", "t">>, <<"l", "y">>, <<"s">> }

\* word.replace(/(ing|ed|er|est|ly|s)$/, '')
stem(word) ==
    IF \E suffix \in Suffixes : endsWith(word, suffix)
    THEN LET suffix == CHOOSE x \in Suffixes : endsWith(word, x) IN
         SubSeq(word, 1, Len(word) - Len(suffix))
    ELSE word

\* the stemmed versions added, in the order of the words
RECURSIVE stemmedVersions(_)
stemmedVersions(words) ==
    IF words = <<>> THEN <<>>
    ELSE LET word == Head(words) IN
         (IF Len(word) > 3 /\ Len(stem(word)) > 2 THEN <<stem(word)>> ELSE <<>>)
         \o stemmedVersions(Tail(words))

\* the partial words added, in the order of the words
RECURSIVE partialWords(_)
partialWords(words) ==
    IF words = <<>> THEN <<>>
    ELSE LET word == Head(words)
             n == Len(word)
         IN (IF n > 4 THEN <<SubSeq(word, 1, n - 1)>> ELSE <<>>)
            \o (IF n > 5 THEN <<SubSeq(word, 1, n - 2) \o <<word[n]>> >> ELSE <<>>)
            \o partialWords(Tail(words))

\* generateQueryVariations(query): the Set's elements in insertion order
generateQueryVariations(query) ==
    LET lower == toLowerCase(query)
        words == nonEmpty(splitSpaces(lower, <<>>))
    IN distinctInOrder(<<lower>> \o words \o stemmedVersions(words)
                       \o partialWords(words), {})

\* preprocessQuery(query)
preprocessQuery(query) ==
    LET original == trim(query)
        processed == trim(collapseSpaces(replaceNonWord(toLowerCase(original))))
    IN [original |-> original,
        processed |-> processed,
        variations |-> generateQueryVariations(processed),
        keywords |-> nonEmpty(splitSpaces(processed, <<>>))]

----------------------------------------------------------------------------
(* lib/fuzzySearch: calculateSearchScore                                   *)

\* a score s is held as the integer s * ScoreScale; ScoreScale is a multiple
\* of 2 and of every string length up to 10, which makes similarity * 30 and
\* score * 1.5 integers for the strings of the inputs
ScoreScale == 1680

Points(n) == n * ScoreScale

\* variant: containment of the query is never recognised
containsQuery_never(contentLower, queryLower) == FALSE

\* contentLower.includes(queryLower)
containsQuery(contentLower, queryLower) == includes(contentLower, queryLower)

\* new RegExp(`\\b${word}\\b`).test(contentLower), for a word made of
\* word characters
wordBoundaryTest(word, contentLower) ==
    \E p \in 1..(Len(contentLower) - Len(word) + 1) :
        LET e == p + Len(word) - 1 IN
        /\ SubSeq(contentLower, p, e) = word
        /\ p = 1 \/ contentLower[p - 1] \notin WordChars
        /\ e = Len(contentLower) \/ contentLower[e + 1] \notin WordChars

\* similarity > 0.7
isFuzzyMatch(similarity) == 10 * similarity.num > 7 * similarity.den

\* similarity * 30
fuzzyPoints(similarity) == (Points(30) * similarity.num) \div similarity.den

\* variant: a signal never changes the match type
raiseType_never(matchType, fired, to) == matchType

\* if (matchType === 'trigram') matchType = to, when the signal fired
raiseType(matchType, fired, to) ==
    IF fired /\ matchType = "trigram" THEN to ELSE matchType

RECURSIVE sumOver(_, _)
sumOver(S, f) ==
    IF S = {} THEN 0
    ELSE LET x == CHOOSE y \in S : TRUE IN f[x] + sumOver(S \ {x}, f)

\* calculateSearchScore(content, query, variations, { boostExact }): the
\* score and the match type
calculateSearchScore(content, query, variations, boostExact) ==
    LET contentLower == toLowerCase(content)
        queryLower == toLowerCase(query)
        exact == containsQuery(contentLower, queryLower)
        queryWords == splitSpaces(queryLower, <<>>)
        exactWordMatches ==
            { k \in DOMAIN queryWords :
                /\ Len(queryWords[k]) > 0
                /\ wordBoundaryTest(queryWords[k], contentLower) }
        words == splitSpaces(contentLower, <<>>)
        sim == [pair \in (DOMAIN variations) \X (DOMAIN words) |->
                  calculateSimilarity(words[pair[2]], variations[pair[1]])]
        fuzzyMatches ==
            { pair \in DOMAIN sim :
                Len(words[pair[2]]) > 2 /\ isFuzzyMatch(sim[pair]) }
        partialMatches ==
            { v \in DOMAIN variations : includes(contentLower, variations[v]) }
        score1 == IF exact THEN Points(100) ELSE 0
        type1 == IF exact THEN "exact" ELSE "trigram"
        score2 == score1 + Cardinality(exactWordMatches) * Points(50)
        type2 == IF exactWordMatches # {} THEN "exact" ELSE type1
        score3 == score2
                  + sumOver(fuzzyMatches,
                            [pair \in fuzzyMatches |-> fuzzyPoints(sim[pair])])
        type3 == raiseType(type2, fuzzyMatches # {}, "fuzzy")
        score4 == score3 + Cardinality(partialMatches) * Points(20)
        type4 == raiseType(type3, partialMatches # {}, "partial")
        score5 == IF boostExact /\ type4 = "exact" THEN (score4 * 3) \div 2
                  ELSE score4
    IN [score |-> IF score5 > Points(100) THEN Points(100)
                  ELSE IF score5 < 0 THEN 0 ELSE score5,
        matchType |-> type4]

----------------------------------------------------------------------------
(* lib/fuzzySearch: sortSearchResults, filterSearchResults                 *)

typePriority == [exact |-> 4, fuzzy |-> 3, partial |-> 2, trigram |-> 1]

\* the comparator of sortSearchResults is negative: a sorts before b
sortsBefore(a, b) ==
    LET typeDiff == typePriority[b.matchType] - typePriority[a.matchType] IN
    IF typeDiff # 0 THEN typeDiff < 0
    ELSE b.score - a.score < 0

\* x put into the sorted array, after every element it does not sort before
RECURSIVE insertSorted(_, _)
insertSorted(sorted, x) ==
    IF sorted = <<>> THEN <<x>>
    ELSE LET last == sorted[Len(sorted)] IN
         IF sortsBefore(x, last)
         THEN Append(insertSorted(SubSeq(sorted, 1, Len(sorted) - 1), x), last)
         ELSE Append(sorted, x)

\* results.sort(comparator): Array.prototype.sort is stable
RECURSIVE sortSearchResults(_)
sortSearchResults(results) ==
    IF results = <<>> THEN <<>>
    ELSE insertSorted(
            sortSearchResults(SubSeq(results, 1, Len(results) - 1)),
            results[Len(results)])

\* variant: the threshold is not applied
keepsResult_always(result, minScore) == TRUE

\* result.score >= threshold
keepsResult(result, minScore) == result.score >= minScore

\* results.filter(result => result.score >= threshold)
RECURSIVE filterSearchResults(_, _)
filterSearchResults(results, minScore) ==
    IF results = <<>> THEN <<>>
    ELSE (IF keepsResult(Head(results), minScore) THEN <<Head(results)>>
          ELSE <<>>)
         \o filterSearchResults(Tail(results), minScore)

----------------------------------------------------------------------------
(* lib/fuzzySearch: smartHighlight.  The highlighted text is a sequence of *)
(* characters and tags; a tag is one element, a string of several          *)
(* characters.                                                             *)

\* text.split(/(\s+)/): the pieces between the runs of white space and, the
\* group capturing, the runs themselves
RECURSIVE splitCapturing(_, _)
splitCapturing(text, piece) ==
    IF text = <<>> THEN <<piece>>
    ELSE IF Head(text) \in WhiteSpace
    THEN LET e == spaceRunEnd(text, 1) IN
         <<piece, SubSeq(text, 1, e)>>
         \o splitCapturing(SubSeq(text, e + 1, Len(text)), <<>>)
    ELSE splitCapturing(Tail(text), Append(piece, Head(text)))

\* word.toLowerCase().replace(/[^\w]/g, '')
RECURSIVE cleanWord(_)
cleanWord(word) ==
    IF word = <<>> THEN <<>>
    ELSE LET c == toLowerCase(<<Head(word)>>) IN
         (IF c[1] \in WordChars THEN c ELSE <<>>) \o cleanWord(Tail(word))

\* x > y for two fractions
exceeds(x, y) == x.num * y.den > y.num * x.den

\* variant: half is enough
overHighlightThreshold_half(score) == 2 * score.num >= score.den

\* score > 0.6
overHighlightThreshold(score) == 10 * score.num > 6 * score.den

\* variations.forEach: the best variation so far and its score
RECURSIVE bestMatchLoop(_, _, _)
bestMatchLoop(cleaned, variations, best) ==
    IF variations = <<>> THEN best
    ELSE LET score == calculateSimilarity(cleaned, Head(variations))
             next == IF exceeds(score, best.bestScore)
                        /\ overHighlightThreshold(score)
                     THEN [bestMatch |-> Head(variations), bestScore |-> score]
                     ELSE best
         IN bestMatchLoop(cleaned, Tail(variations), next)

\* the bestMatch and bestScore of one piece of the text; bestMatch stays ''
\* for a piece without word characters
bestMatchOf(word, variations) ==
    LET none == [bestMatch |-> <<>>, bestScore |-> [num |-> 0, den |-> 1]] IN
    IF Len(cleanWord(word)) = 0 THEN none
    ELSE bestMatchLoop(cleanWord(word), variations, none)

\* bestScore.toFixed(2), in hundredths
toFixed2(score) == (200 * score.num + score.den) \div (2 * score.den)

markOpen(hundredths) ==
    "<mark class=search-highlight data-score=" \o ToString(hundredths) \o ">"

markClose == "</mark>"

\* words[index] after the callback: wrapped if (bestMatch)
highlightedWord(word, variations) ==
    LET best == bestMatchOf(word, variations) IN
    IF best.bestMatch # <<>>
    THEN <<markOpen(toFixed2(best.bestScore))>> \o word \o <<markClose>>
    ELSE word

\* words.join('')
RECURSIVE joinAll(_)
joinAll(words) ==
    IF words = <<>> THEN <<>> ELSE Head(words) \o joinAll(Tail(words))

\* smartHighlight(text, query, variations)
smartHighlight(text, query, variations) ==
    LET words == splitCapturing(text, <<>>) IN
    joinAll([x \in DOMAIN words |-> highlightedWord(words[x], variations)])

----------------------------------------------------------------------------
(* app/api/search/route: the queries the strategies send, and what the     *)
(* database answers                                                        *)

\* searchParams.get(...) of a parameter the URL does not have
AbsentText == <<"NULL">>
AbsentId == "NULL"

\* the words to_tsvector / websearch_to_tsquery see: the maximal runs of
\* word characters, in lower case
ftsTokens(text) ==
    Range(nonEmpty(splitSpaces(replaceNonWord(toLowerCase(text)), <<>>)))

\* stop words of the english configuration (those the inputs contain)
StopWords == { <<"t", "h", "e">>, <<"i", "s">> }

\* the english stemmer, on the words of the inputs: a plural s is removed
\* (every other word of the inputs is its own stem, up to renaming)
ftsStem(word) ==
    IF Len(word) > 3 /\ endsWith(word, <<"s">>) /\ ~endsWith(word, <<"s", "s">>)
    THEN SubSeq(word, 1, Len(word) - 1)
    ELSE word

ftsLexemes(text) == { ftsStem(w) : w \in ftsTokens(text) \ StopWords }

\* to_tsvector('english', content) @@ websearch_to_tsquery('english', terms):
\* every lexeme of the terms is a lexeme of the content; a query without
\* lexemes matches nothing
textSearchMatches(content, terms) ==
    /\ ftsLexemes(terms) # {}
    /\ ftsLexemes(terms) \subseteq ftsLexemes(content)

\* content ILIKE '%' || pattern || '%': case-insensitive, and an underscore
\* of the pattern stands for any one character (a normalized query has no %)
ilikeMatches(content, pattern) ==
    LET c == toLowerCase(content)
        pat == toLowerCase(pattern)
    IN \E p \in 1..(Len(c) - Len(pat) + 1) :
          \A x \in 1..Len(pat) : pat[x] = "_" \/ c[p + x - 1] = pat[x]

\* the keyword strategies, in the order of the keywords
RECURSIVE keywordStrategies(_)
keywordStrategies(keywords) ==
    IF keywords = <<>> THEN <<>>
    ELSE (IF Len(Head(keywords)) > 2
          THEN << [kind |-> "ilike", arg |-> Head(keywords)] >>
          ELSE <<>>)
         \o keywordStrategies(Tail(keywords))

\* searchStrategies: textSearch on processed, ilike on processed, one ilike
\* per keyword longer than 2
searchStrategies(processed, keywords) ==
    << [kind |-> "textSearch", arg |-> processed],
       [kind |-> "ilike", arg |-> processed] >>
    \o keywordStrategies(keywords)

\* the rows a strategy selects before its limit: its filter on content and,
\* if (documentId), .eq('document_id', documentId)
matchingRows(strategy, docId, rows) ==
    { r \in rows :
        /\ IF strategy.kind = "textSearch"
           THEN textSearchMatches(r.content, strategy.arg)
           ELSE ilikeMatches(r.content, strategy.arg)
        /\ docId = AbsentId \/ r.document_id = docId }

\* the arrays strategy.limit(n) may answer: the statement has no ORDER BY,
\* so any min(n, |matching|) of the matching rows, in any order
limitedAnswers(matching, n) ==
    LET len == IF Cardinality(matching) < n THEN Cardinality(matching) ELSE n
    IN { s \in [1..len -> matching] :
            \A x, y \in 1..len : x # y => s[x] # s[y] }

----------------------------------------------------------------------------
(* app/api/search/route: GET, after the strategies settled                 *)

\* variant: Promise.all, which rejects as soon as one strategy rejects
awaitStrategies_all(settledSeq) ==
    IF \E k \in DOMAIN settledSeq : settledSeq[k].status = "rejected"
    THEN "throws" ELSE "resolves"

\* await Promise.allSettled(searchPromises) never throws
awaitStrategies(settledSeq) == "resolves"

\* result.status === 'fulfilled' && result.value.data
hasData(result) == result.status = "fulfilled" /\ result.hasData

\* the rows of the results with data, strategies in index order
RECURSIVE rowsInOrder(_)
rowsInOrder(settledSeq) ==
    IF settledSeq = <<>> THEN <<>>
    ELSE (IF hasData(Head(settledSeq)) THEN Head(settledSeq).data ELSE <<>>)
         \o rowsInOrder(Tail(settledSeq))

\* if (!allChunks.has(chunk.id)) allChunks.set(chunk.id, chunk)
RECURSIVE firstById(_, _)
firstById(rows, seenIds) ==
    IF rows = <<>> THEN <<>>
    ELSE IF Head(rows).id \in seenIds THEN firstById(Tail(rows), seenIds)
    ELSE <<Head(rows)>> \o firstById(Tail(rows), seenIds \cup {Head(rows).id})

\* Array.from(allChunks.values())
combinedChunks(settledSeq) == firstById(rowsInOrder(settledSeq), {})

\* searchResultsWithScores
scoredChunks(chunks, processed, variations) ==
    [k \in DOMAIN chunks |->
        LET s == calculateSearchScore(chunks[k].content, processed,
                                      variations, TRUE)
        IN [chunk |-> chunks[k], score |-> s.score, matchType |-> s.matchType]]

\* { ...result.chunk, highlighted, searchScore: result.score,
\*   matchType: result.matchType }
resultRow(result, processed, variations) ==
    [id |-> result.chunk.id,
     highlighted |-> smartHighlight(result.chunk.content, processed,
                                    variations),
     document_id |-> result.chunk.document_id,
     chunk_index |-> result.chunk.chunk_index,
     content |-> result.chunk.content,
     searchScore |-> result.score,
     matchType |-> result.matchType]

\* the body sent when no strategy gave a chunk
emptyResponse(queryInfo) ==
    [status |-> 200, results |-> <<>>, count |-> 0, query |-> queryInfo]

\* the response of GET once the strategies have settled
searchResponse(query, minScore, limit, settledSeq) ==
    LET queryInfo == preprocessQuery(query)
        chunks == combinedChunks(settledSeq)
        filtered == filterSearchResults(
                        sortSearchResults(
                            scoredChunks(chunks, queryInfo.processed,
                                         queryInfo.variations)),
                        minScore)
    IN IF awaitStrategies(settledSeq) = "throws"
       THEN [status |-> 500, error |-> "Internal server error"]
       ELSE IF Len(chunks) = 0 THEN emptyResponse(queryInfo)
       ELSE [status |-> 200,
             results |-> [k \in DOMAIN filtered |->
                            resultRow(filtered[k], queryInfo.processed,
                                      queryInfo.variations)],
             count |-> Len(filtered),
             totalFound |-> Len(chunks),
             query |-> queryInfo,
             searchStats |-> [threshold |-> minScore,
                              maxResults |-> limit,
                              strategiesUsed |-> Len(settledSeq)]]

----------------------------------------------------------------------------
(* Inputs of levenshteinDistance and of the search route.                  *)

\* strings over LevAlphabet of at most MaxLevLen characters
MaxLevLen == 3

LevAlphabet == {"a", "b"}

LevStrings == UNION { [1..n -> LevAlphabet] : n \in 0..MaxLevLen }

Documnt == <<"d", "o", "c", "u", "m", "n", "t">>
Document == <<"d", "o", "c", "u", "m", "e", "n", "t">>

LevInputs == (LevStrings \X LevStrings) \cup { <<Documnt, Document>> }

\* the corpus holds at most MaxRows chunks
MaxRows == 2

\* chunks the corpus may hold: two documents; within a document the
\* contents (UNIQUE(document_id, content_hash)) and the indexes are distinct
ChunkRows ==
    { [id |-> "c1", document_id |-> "d1", chunk_index |-> 0,
       content |-> <<"c", "a", "t", " ", "d", "o", "g">>],
      [id |-> "c2", document_id |-> "d1", chunk_index |-> 1,
       content |-> <<"D", "o", "g", " ", "(", "c", "a", "t", ")">>],
      [id |-> "c3", document_id |-> "d1", chunk_index |-> 2,
       content |-> <<"t", "h", "e", " ">> \o Document
                   \o <<" ", "i", "s", " ", "r", "e", "a", "d", "y">>],
      [id |-> "c4", document_id |-> "d2", chunk_index |-> 0,
       content |-> <<"C", "a", "t", "s">>] }

Tables == { t \in SUBSET ChunkRows : Cardinality(t) <= MaxRows }

\* the q parameter: absent, empty, one word, one word with an underscore,
\* one word with a typing error, two words with capitals and punctuation,
\* punctuation only
Queries ==
    { AbsentText,
      <<>>,
      <<"c", "a", "t">>,
      <<"c", "_", "t">>,
      Documnt,
      <<"C", "a", "t", " ", "d", "o", "g", "!">>,
      <<"!">> }

DocumentIdChoices == {AbsentId, "d1"}

\* the threshold parameter, in points: the ends of its range and the default
ThresholdChoices == {0, 10, 100}

\* the maxResults parameter
LimitChoices == {1, 2}

NoResponse == [status |-> 0]

----------------------------------------------------------------------------
(* The Home page and the DocumentStatus component.                         *)

\* at most MaxUploads documents are uploaded while the page is open
MaxUploads == 2

\* at most MaxPolls status requests are issued while the page is open
MaxPolls == 3

DocumentIds == 1..MaxUploads

\* {documentId && isProcessing && <DocumentStatus ... />}
statusShown(docId, processing) == docId # 0 /\ processing

\* {documentId && isComplete && <ChunkDisplay ... />}
chunksShown(docId, complete) == docId # 0 /\ complete

----------------------------------------------------------------------------
(* A parse run: the trigger-parse route and the parse-pdf edge function.   *)

\* at most MaxRuns trigger-parse requests are made for the document
MaxRuns == 2

\* const BATCH_SIZE = 100
BATCH_SIZE == 100

\* the number of chunks the segmentation of the document gives
ChunkCounts == {0, 1, 101}

\* the content_hash of the chunks of a segmentation of n chunks; the file
\* in storage does not change, so every run computes the same sequence
chunkHashes(n) == [k \in 1..n |-> k]

Min(a, b) == IF a < b THEN a ELSE b

\* allChunks.slice(i, i + BATCH_SIZE), with document_id added: the rows of
\* one batch; run stands for the id the database gives each row
chunksToInsert(chunkSeq, i, run) ==
    { [content_hash |-> chunkSeq[k], run |-> run] :
        k \in (i + 1)..Min(i + BATCH_SIZE, Len(chunkSeq)) }

\* UNIQUE(document_id, content_hash): an insert is refused when a stored
\* row of the document has the content_hash of a row of the batch
uniqueViolation(rows, batch) ==
    \E r \in rows : \E b \in batch : r.content_hash = b.content_hash

\* variant: a failed insert is logged and the loop goes on
afterInsert_warn(insertError) == "next"

\* if (insertError) { ...; throw new Error(...) }
afterInsert(insertError) == IF insertError THEN "throw" ELSE "next"

\* response.ok
responseOk(status) == status >= 200 /\ status <= 299

----------------------------------------------------------------------------
(* The state machines.  Each specification runs one part of the program;   *)
(* the variables of the other parts stay idle.                             *)

ChunkInit ==
    /\ pages \in { asPages(raw) : raw \in RawDocs }
    /\ opts \in Options
    /\ pc = "call"
    /\ outcome = "none"
    /\ allChunks = <<>>

ChunkIdle ==
    /\ pages = <<>>
    /\ opts = [minTokens |-> 1, maxTokens |-> 1, overlapPercentage |-> 0]
    /\ pc = "idle"
    /\ outcome = "none"
    /\ allChunks = <<>>

LevInit ==
    /\ \E pair \in LevInputs : levStr1 = pair[1] /\ levStr2 = pair[2]
    /\ distance = 0
    /\ levPc = "call"

LevIdle ==
    /\ levStr1 = <<>>
    /\ levStr2 = <<>>
    /\ distance = 0
    /\ levPc = "idle"

SearchInit ==
    /\ rawQuery \in Queries
    /\ documentId \in DocumentIdChoices
    /\ threshold \in { Points(t) : t \in ThresholdChoices }
    /\ maxResults \in LimitChoices
    /\ table \in Tables
    /\ settled = <<>>
    /\ response = NoResponse
    /\ searchPc = "request"
    /\ firstResponse = NoResponse

SearchIdle ==
    /\ rawQuery = AbsentText
    /\ documentId = AbsentId
    /\ threshold = 0
    /\ maxResults = 1
    /\ table = {}
    /\ settled = <<>>
    /\ response = NoResponse
    /\ searchPc = "idle"
    /\ firstResponse = NoResponse

\* the state of a parse run before the first request, for a document whose
\* segmentation has the chunks of chunkSeq
ParseStart(chunkSeq, position) ==
    /\ docStatus = "uploaded"
    /\ stored = {}
    /\ storedAtStart = {}
    /\ runNo = 0
    /\ parsePc = position
    /\ runChunks = chunkSeq
    /\ batchStart = 0
    /\ edgeResponse = 0
    /\ routeResponse = 0
    /\ setProcessing = FALSE
    /\ insertFailed = FALSE
    /\ readyRun = 0

ParseInit == \E n \in ChunkCounts : ParseStart(chunkHashes(n), "idle")

ParseIdle == ParseStart(<<>>, "off")

\* the page as first rendered: useState(null), useState(false),
\* useState(false); no document uploaded, no request made
HomeInit ==
    /\ homeDocumentId = 0
    /\ isProcessing = FALSE
    /\ isComplete = FALSE
    /\ serverStatus = [d \in DocumentIds |-> "uploaded"]
    /\ uploads = 0
    /\ polls = {}
    /\ pollsIssued = 0
    /\ mountNo = 0
    /\ errorSeenBy = 0
    /\ observedReady = {}

(* One call of chunkPages.                                                 *)

Init == ChunkInit /\ LevIdle /\ SearchIdle /\ ParseIdle /\ HomeInit

\* chunkPages(pages, options) runs to its return; nothing in it throws
ChunkPages ==
    /\ pc = "call"
    /\ allChunks' = chunkPages(pages, opts)
    /\ outcome' = "returned"
    /\ pc' = "done"
    /\ UNCHANGED <<pages, opts, levVars, searchVars, parseVars, homeVars>>

Next == ChunkPages

Spec == Init /\ [][Next]_vars

(* One call of levenshteinDistance.                                        *)

InitLev == ChunkIdle /\ LevInit /\ SearchIdle /\ ParseIdle /\ HomeInit

LevenshteinDistance ==
    /\ levPc = "call"
    /\ distance' = levenshteinDistance(levStr1, levStr2)
    /\ levPc' = "done"
    /\ UNCHANGED <<levStr1, levStr2, chunkVars, searchVars, parseVars, homeVars>>

NextLev == LevenshteinDistance

SpecLev == InitLev /\ [][NextLev]_vars

(* One request GET /api/search, and a second one on the same corpus.       *)

InitSearch ==
    ChunkIdle /\ LevIdle /\ SearchInit /\ ParseIdle /\ HomeInit

\* variant: only a request without the q parameter is refused
queryMissing_onlyAbsent(query) == query = AbsentText

\* !query: the parameter is absent or the empty string
queryMissing(query) == query = AbsentText \/ query = <<>>

\* if (!query): 400
RejectRequest ==
    /\ searchPc = "request"
    /\ queryMissing(rawQuery)
    /\ response' = [status |-> 400, error |-> "Search query is required"]
    /\ searchPc' = "responded"
    /\ UNCHANGED <<rawQuery, documentId, threshold, maxResults, table,
                   settled, firstResponse, chunkVars, levVars,
                   parseVars, homeVars>>

\* the strategies actually sent for the request
sentStrategies ==
    LET queryInfo == preprocessQuery(rawQuery) IN
    searchStrategies(queryInfo.processed, queryInfo.keywords)

\* searchStrategies.map(strategy => strategy.limit(maxResults)): every
\* strategy is sent, none has settled
StartStrategies ==
    /\ searchPc = "request"
    /\ ~queryMissing(rawQuery)
    /\ settled' = [k \in DOMAIN sentStrategies |->
                     [strategy |-> sentStrategies[k], status |-> "pending",
                      hasData |-> FALSE, data |-> <<>>]]
    /\ searchPc' = "strategies"
    /\ UNCHANGED <<rawQuery, documentId, threshold, maxResults, table,
                   response, firstResponse, chunkVars, levVars,
                   parseVars, homeVars>>

Settles(k, status, hasRows, rows) ==
    /\ searchPc = "strategies"
    /\ k \in DOMAIN settled
    /\ settled[k].status = "pending"
    /\ settled' = [settled EXCEPT ![k].status = status,
                                  ![k].hasData = hasRows,
                                  ![k].data = rows]
    /\ UNCHANGED <<rawQuery, documentId, threshold, maxResults, table,
                   response, searchPc, firstResponse, chunkVars, levVars,
                   parseVars, homeVars>>

\* strategy k answers { data: rows, error: null }
StrategyFulfils(k) ==
    /\ searchPc = "strategies"
    /\ k \in DOMAIN settled
    /\ settled[k].status = "pending"
    /\ \E rows \in limitedAnswers(
                     matchingRows(settled[k].strategy, documentId, table),
                     maxResults) :
          Settles(k, "fulfilled", TRUE, rows)

\* strategy k answers { data: null, error }
StrategyErrors(k) ==
    Settles(k, "fulfilled", FALSE, <<>>)

\* the promise of strategy k rejects
StrategyRejects(k) ==
    Settles(k, "rejected", FALSE, <<>>)

\* Promise.allSettled resolved: combine, score, sort, filter, answer
Respond ==
    /\ searchPc = "strategies"
    /\ \A k \in DOMAIN settled : settled[k].status # "pending"
    /\ response' = searchResponse(rawQuery, threshold, maxResults, settled)
    /\ searchPc' = "responded"
    /\ UNCHANGED <<rawQuery, documentId, threshold, maxResults, table,
                   settled, firstResponse, chunkVars, levVars,
                   parseVars, homeVars>>

\* a request has at most 2 + (number of keywords) strategies
StrategyIds == 1..4

NextSearch ==
    \/ RejectRequest
    \/ StartStrategies
    \/ \E k \in StrategyIds : StrategyFulfils(k)
    \/ \E k \in StrategyIds : StrategyErrors(k)
    \/ \E k \in StrategyIds : StrategyRejects(k)
    \/ Respond

SpecSearch == InitSearch /\ [][NextSearch]_vars

\* the same request is sent again; the corpus is as it was
SearchAgain ==
    /\ searchPc = "responded"
    /\ firstResponse = NoResponse
    /\ firstResponse' = response
    /\ response' = NoResponse
    /\ settled' = <<>>
    /\ searchPc' = "request"
    /\ UNCHANGED <<rawQuery, documentId, threshold, maxResults, table,
                   chunkVars, levVars, parseVars, homeVars>>

\* the two requests of the comparison: no document filter, the default
\* threshold, and a database that answers every strategy
InitSearchTwice ==
    /\ InitSearch
    /\ documentId = AbsentId
    /\ threshold = Points(10)

NextSearchTwice ==
    \/ RejectRequest
    \/ StartStrategies
    \/ \E k \in StrategyIds : StrategyFulfils(k)
    \/ Respond
    \/ SearchAgain

SpecSearchTwice == InitSearchTwice /\ [][NextSearchTwice]_vars

(* Parse runs of one document, one request after the other.                *)

InitParse == ChunkIdle /\ LevIdle /\ SearchIdle /\ ParseInit /\ HomeInit

\* a new request may be made when none is running
MayRequest == parsePc \in {"idle", "returned"} /\ runNo < MaxRuns

\* POST without documentId: 400
PostRejected ==
    /\ MayRequest
    /\ runNo' = runNo + 1
    /\ storedAtStart' = stored
    /\ routeResponse' = 400
    /\ edgeResponse' = 0
    /\ setProcessing' = FALSE
    /\ insertFailed' = FALSE
    /\ batchStart' = 0
    /\ parsePc' = "returned"
    /\ UNCHANGED <<docStatus, stored, runChunks, readyRun, chunkVars, levVars,
                   searchVars, homeVars>>

\* POST with a documentId: the status is set to 'processing'; when that
\* update fails the route answers 500
PostStarts ==
    /\ MayRequest
    /\ runNo' = runNo + 1
    /\ storedAtStart' = stored
    /\ edgeResponse' = 0
    /\ insertFailed' = FALSE
    /\ batchStart' = 0
    /\ \E updateError \in BOOLEAN :
          IF updateError
          THEN /\ routeResponse' = 500
               /\ setProcessing' = FALSE
               /\ parsePc' = "returned"
               /\ UNCHANGED docStatus
          ELSE /\ routeResponse' = 0
               /\ setProcessing' = TRUE
               /\ parsePc' = "fetch"
               /\ docStatus' = "processing"
    /\ UNCHANGED <<stored, runChunks, readyRun, chunkVars, levVars, searchVars, homeVars>>

\* fetch of the edge function throws: the catch block answers 500
FetchThrows ==
    /\ parsePc = "fetch"
    /\ routeResponse' = 500
    /\ parsePc' = "returned"
    /\ UNCHANGED <<docStatus, stored, runNo, runChunks, batchStart,
                   edgeResponse, setProcessing, insertFailed, readyRun,
                   storedAtStart, chunkVars, levVars, searchVars, homeVars>>

\* serve up to the chunking: the document is looked up (404 on an error),
\* the file is downloaded (on an error the status is set to 'error', the
\* result of that update is not looked at, and the answer is 500), the PDF
\* is parsed (a throw is answered 500 by the catch block) and chunked
ServeStarts ==
    /\ parsePc = "fetch"
    /\ \E step \in {"docError", "downloadError", "parseThrows", "chunked"} :
       \E updated \in BOOLEAN :
          CASE step = "docError" ->
                 /\ edgeResponse' = 404
                 /\ parsePc' = "edgeReturned"
                 /\ UNCHANGED docStatus
            [] step = "downloadError" ->
                 /\ edgeResponse' = 500
                 /\ parsePc' = "edgeReturned"
                 /\ docStatus' = IF updated THEN "error" ELSE docStatus
            [] step = "parseThrows" ->
                 /\ edgeResponse' = 500
                 /\ parsePc' = "edgeReturned"
                 /\ UNCHANGED docStatus
            [] step = "chunked" ->
                 /\ parsePc' = "delete"
                 /\ UNCHANGED <<edgeResponse, docStatus>>
    /\ UNCHANGED <<stored, runNo, runChunks, batchStart, routeResponse,
                   setProcessing, insertFailed, readyRun, storedAtStart, chunkVars, levVars,
                   searchVars, homeVars>>

\* serve: the chunks of the document are deleted; an error is only warned
DeleteOldChunks ==
    /\ parsePc = "delete"
    /\ \E deleteError \in BOOLEAN :
          stored' = IF deleteError THEN stored ELSE {}
    /\ batchStart' = 0
    /\ parsePc' = "insert"
    /\ UNCHANGED <<docStatus, runNo, runChunks, edgeResponse, routeResponse,
                   setProcessing, insertFailed, readyRun, storedAtStart, chunkVars, levVars,
                   searchVars, homeVars>>

\* serve: one pass of the insert loop; the insert of a batch is one
\* statement, refused as a whole by the constraint or by a database error
InsertBatch ==
    /\ parsePc = "insert"
    /\ batchStart < Len(runChunks)
    /\ \E dbError \in BOOLEAN :
          LET batch == chunksToInsert(runChunks, batchStart, runNo)
              insertError == dbError \/ uniqueViolation(stored, batch)
          IN /\ stored' = IF insertError THEN stored ELSE stored \cup batch
             /\ insertFailed' = (insertFailed \/ insertError)
             /\ IF afterInsert(insertError) = "throw"
                THEN /\ edgeResponse' = 500
                     /\ parsePc' = "edgeReturned"
                     /\ UNCHANGED batchStart
                ELSE /\ batchStart' = batchStart + BATCH_SIZE
                     /\ UNCHANGED <<edgeResponse, parsePc>>
    /\ UNCHANGED <<docStatus, runNo, runChunks, routeResponse, setProcessing,
                   readyRun, storedAtStart, chunkVars, levVars, searchVars, homeVars>>

\* serve after the loop: the status is set to 'ready'; an error of the
\* update is only logged, and the answer is 200
UpdateReady ==
    /\ parsePc = "insert"
    /\ batchStart >= Len(runChunks)
    /\ \E updateError \in BOOLEAN :
          /\ docStatus' = IF updateError THEN docStatus ELSE "ready"
          /\ readyRun' = IF updateError THEN readyRun ELSE runNo
    /\ edgeResponse' = 200
    /\ parsePc' = "edgeReturned"
    /\ UNCHANGED <<stored, runNo, runChunks, batchStart, routeResponse,
                   setProcessing, insertFailed, storedAtStart, chunkVars, levVars,
                   searchVars, homeVars>>

\* POST after the fetch: a response that is not ok sets the status to
\* 'error' (the result of the update is not looked at) and is answered 500
PostReturns ==
    /\ parsePc = "edgeReturned"
    /\ IF responseOk(edgeResponse)
       THEN /\ routeResponse' = 200
            /\ UNCHANGED docStatus
       ELSE /\ routeResponse' = 500
            /\ \E updated \in BOOLEAN :
                  docStatus' = IF updated THEN "error" ELSE docStatus
    /\ parsePc' = "returned"
    /\ UNCHANGED <<stored, runNo, runChunks, batchStart, edgeResponse,
                   setProcessing, insertFailed, readyRun, storedAtStart, chunkVars, levVars,
                   searchVars, homeVars>>

NextParse ==
    \/ PostRejected
    \/ PostStarts
    \/ FetchThrows
    \/ ServeStarts
    \/ DeleteOldChunks
    \/ InsertBatch
    \/ UpdateReady
    \/ PostReturns

SpecParse == InitParse /\ [][NextParse]_vars

(* The Home page: uploads, status polls and resets, in any order.          *)

InitHome == ChunkIdle /\ LevIdle /\ SearchIdle /\ ParseIdle /\ HomeInit

\* DocumentStatus is rendered
Mounted == statusShown(homeDocumentId, isProcessing)

\* pollStatus is called: a status request for the document leaves
issuePoll(docId, mount) ==
    /\ polls' = polls \cup {[doc |-> docId, mount |-> mount,
                              n |-> pollsIssued + 1]}
    /\ pollsIssued' = pollsIssued + 1

\* UploadForm has uploaded a file and trigger-parse has answered ok, so the
\* parse run is over and has set 'ready', or has failed to set it; then
\* handleUploadComplete(id) runs, DocumentStatus is mounted, and its effect
\* starts the interval and makes the initial call of pollStatus
handleUploadComplete ==
    /\ homeDocumentId = 0
    /\ uploads < MaxUploads
    /\ pollsIssued < MaxPolls
    /\ uploads' = uploads + 1
    /\ \E st \in {"ready", "processing"} :
          serverStatus' = [serverStatus EXCEPT ![uploads + 1] = st]
    /\ homeDocumentId' = uploads + 1
    /\ isProcessing' = TRUE
    /\ mountNo' = mountNo + 1
    /\ issuePoll(uploads + 1, mountNo + 1)
    /\ UNCHANGED <<isComplete, errorSeenBy, observedReady, chunkVars, levVars,
                   searchVars, parseVars>>

\* setInterval(pollStatus, 2000) fires; the interval lives until the
\* component is unmounted
intervalFires ==
    /\ Mounted
    /\ pollsIssued < MaxPolls
    /\ issuePoll(homeDocumentId, mountNo)
    /\ UNCHANGED <<homeDocumentId, isProcessing, isComplete, serverStatus,
                   uploads, mountNo, errorSeenBy, observedReady, chunkVars,
                   levVars, searchVars, parseVars>>

\* the fetch of a call of pollStatus resolves, whether or not the component
\* that made the call is still mounted: 'ready' calls onComplete, which is
\* handleProcessingComplete; 'error' returns from this call; a response
\* that is not ok, or a fetch that throws, only sets the error text
pollStatusResolves(p) ==
    /\ p \in polls
    /\ polls' = polls \ {p}
    /\ \E ok \in BOOLEAN :
          LET status == serverStatus[p.doc]
          IN CASE ok /\ status = "ready" ->
                    /\ isProcessing' = FALSE
                    /\ isComplete' = TRUE
                    /\ observedReady' = observedReady \cup {p.doc}
                    /\ UNCHANGED errorSeenBy
               [] ok /\ status = "error" ->
                    /\ errorSeenBy' = IF Mounted /\ p.mount = mountNo
                                      THEN mountNo ELSE errorSeenBy
                    /\ UNCHANGED <<isProcessing, isComplete, observedReady>>
               [] OTHER ->
                    UNCHANGED <<isProcessing, isComplete, observedReady,
                                errorSeenBy>>
    /\ UNCHANGED <<homeDocumentId, serverStatus, uploads, pollsIssued, mountNo,
                   chunkVars, levVars, searchVars, parseVars>>

\* the button "Upload Another Document", rendered with the chunk view
handleReset ==
    /\ chunksShown(homeDocumentId, isComplete)
    /\ homeDocumentId' = 0
    /\ isProcessing' = FALSE
    /\ isComplete' = FALSE
    /\ UNCHANGED <<serverStatus, uploads, polls, pollsIssued, mountNo,
                   errorSeenBy, observedReady, chunkVars, levVars, searchVars,
                   parseVars>>

\* another trigger-parse request for an uploaded document: its status
\* becomes 'processing', then 'ready' or 'error'
statusChanges(d) ==
    /\ d <= uploads
    /\ \E st \in {"processing", "ready", "error"} \ {serverStatus[d]} :
          serverStatus' = [serverStatus EXCEPT ![d] = st]
    /\ UNCHANGED <<homeDocumentId, isProcessing, isComplete, uploads, polls,
                   pollsIssued, mountNo, errorSeenBy, observedReady,
                   chunkVars, levVars, searchVars, parseVars>>

NextHome ==
    \/ handleUploadComplete
    \/ intervalFires
    \/ \E p \in polls : pollStatusResolves(p)
    \/ handleReset
    \/ \E d \in DocumentIds : statusChanges(d)

SpecHome == InitHome /\ [][NextHome]_vars

----------------------------------------------------------------------------
(* Properties of the segmentation engine.                                  *)

Done == pc = "done"

ChunkIdx == 1..Len(allChunks)

\* chunk k is the first (last) chunk of its page in the returned sequence
FirstOfPage(k) == k = 1 \/ allChunks[k - 1].page_no # allChunks[k].page_no
LastOfPage(k) ==
    k = Len(allChunks) \/ allChunks[k + 1].page_no # allChunks[k].page_no

\* sum of the token estimates of the sentences of ss
RECURSIVE SumTokens(_)
SumTokens(ss) ==
    IF ss = <<>> THEN 0 ELSE countTokens(Head(ss)) + SumTokens(Tail(ss))

RECURSIVE Flatten(_)
Flatten(sss) == IF sss = <<>> THEN <<>> ELSE Head(sss) \o Flatten(Tail(sss))

\* the last n elements of ss
LastN(ss, n) == SubSeq(ss, Len(ss) - n + 1, Len(ss))

\* the overlap seed of a chunk and the sentences appended after it
SeedOf(c) == SubSeq(c.sentences, 1, c.seed)
NonOverlapOf(c) == SubSeq(c.sentences, c.seed + 1, Len(c.sentences))

\* C1: the chunk_index values of the sequence chunkPages returns are
\* 0, 1, ..., N-1 in output order (pages with empty text add no chunk), and
\* meta.chunk_index equals chunk_index on every chunk.
C1_GlobalIndexContiguous ==
    Done => \A k \in ChunkIdx :
                /\ allChunks[k].chunk_index = k - 1
                /\ allChunks[k].meta.chunk_index = allChunks[k].chunk_index

\* a page with empty text lies between two pages that produced chunks
C1_Witness ==
    /\ Done
    /\ \E p \in 1..Len(pages) : Len(pages[p].text) = 0
          /\ \E i, j \in ChunkIdx : /\ allChunks[i].page_no < p
                                    /\ allChunks[j].page_no > p

\* C2: the sentences each chunk appends after its overlap seed, taken in
\* chunk order, are the sentences of the pages in page and sentence order:
\* each appears once, none is lost, none is reordered.  (Each chunk's
\* content is its sentences joined by single spaces.)
C2_NonOverlapReconstructs ==
    Done =>
      /\ \A k \in ChunkIdx : allChunks[k].content = join(allChunks[k].sentences)
      /\ Flatten([k \in ChunkIdx |-> NonOverlapOf(allChunks[k])])
           = Flatten([p \in 1..Len(pages) |-> splitIntoSentences(pages[p].text)])

\* two pages produced chunks and some chunk starts with an overlap seed
C2_Witness ==
    /\ Done
    /\ \E k \in ChunkIdx : allChunks[k].seed > 0 /\ Len(NonOverlapOf(allChunks[k])) > 0
    /\ \E i, j \in ChunkIdx : allChunks[i].page_no # allChunks[j].page_no

TargetAfter(k) ==
    overlapTokenTarget(allChunks[k - 1].token_count, opts.overlapPercentage)

\* chunk k continues chunk k - 1 (both come from the same page)
Continues(k) == k > 1 /\ allChunks[k - 1].page_no = allChunks[k].page_no

\* C5 as stated: the overlap seed of chunk k is the longest run of trailing
\* sentences of chunk k - 1 whose token sum does not exceed the target (all
\* of them when they all fit); the seed's token sum never exceeds the target.
C5_SeedLongestWithinTarget ==
    Done => \A k \in ChunkIdx : Continues(k) =>
        LET prev == allChunks[k - 1].sentences
            n == allChunks[k].seed
        IN /\ n <= Len(prev)
           /\ SeedOf(allChunks[k]) = LastN(prev, n)
           /\ SumTokens(LastN(prev, n)) <= TargetAfter(k)
           /\ \/ n = Len(prev)
              \/ SumTokens(LastN(prev, n + 1)) > TargetAfter(k)

\* C5 (amended): the overlap seed of chunk k is the shortest run of trailing
\* sentences of chunk k - 1 whose token sum reaches the target (is >= it),
\* and all sentences of chunk k - 1 when their sum stays below the target.
C5_SeedShortestReachingTarget ==
    Done => \A k \in ChunkIdx : Continues(k) =>
        LET prev == allChunks[k - 1].sentences
            n == allChunks[k].seed
        IN /\ n <= Len(prev)
           /\ SeedOf(allChunks[k]) = LastN(prev, n)
           /\ n > 0 => SumTokens(LastN(prev, n - 1)) < TargetAfter(k)
           /\ \/ n = Len(prev)
              \/ SumTokens(LastN(prev, n)) >= TargetAfter(k)

\* a seed that is a proper part of the chunk before it and whose token sum
\* is above the target
C5_Witness ==
    /\ Done
    /\ \E k \in ChunkIdx : /\ Continues(k)
                           /\ allChunks[k].seed > 0
                           /\ allChunks[k].seed < Len(allChunks[k - 1].sentences)
                           /\ SumTokens(SeedOf(allChunks[k])) > TargetAfter(k)

\* C6: token_count <= max_tokens for every chunk, except a chunk that is a
\* single sentence whose own token count exceeds max_tokens.
C6_WithinMaxTokens ==
    Done => \A k \in ChunkIdx :
                \/ allChunks[k].token_count <= opts.maxTokens
                \/ /\ Len(allChunks[k].sentences) = 1
                   /\ countTokens(allChunks[k].sentences[1]) > opts.maxTokens

\* C7: no two chunks of the sequence of one document have the same content
\* fingerprint (the sequence satisfies UNIQUE(document_id, content_hash)).
C7_FingerprintsDistinct ==
    Done => \A i, j \in ChunkIdx :
                i # j => allChunks[i].content_hash # allChunks[j].content_hash

\* C9: with min_tokens > max_tokens the call ends as an error and computes
\* and returns no chunk.
C9_RejectsMinAboveMax ==
    (Done /\ opts.minTokens > opts.maxTokens) =>
        (outcome = "threw" /\ allChunks = <<>>)

\* C10: under a configuration with min_tokens <= max_tokens, every chunk
\* other than the final chunk of its page has token_count >= min_tokens.
C10_AtLeastMinTokens ==
    (Done /\ opts.minTokens <= opts.maxTokens) =>
        \A k \in ChunkIdx :
            ~LastOfPage(k) => allChunks[k].token_count >= opts.minTokens

\* C27: every chunk with has_overlap = true begins with at least one sentence
\* that is a trailing sentence of the chunk before it (its overlap seed is
\* not empty).
C27_OverlapFlagTruthful ==
    Done => \A k \in ChunkIdx :
        allChunks[k].meta.has_overlap =>
            /\ k > 1
            /\ allChunks[k].seed > 0
            /\ allChunks[k].seed <= Len(allChunks[k - 1].sentences)
            /\ SeedOf(allChunks[k])
                   = LastN(allChunks[k - 1].sentences, allChunks[k].seed)

----------------------------------------------------------------------------
(* Properties of the search route.                                         *)

Responded == searchPc = "responded"

\* the request was answered with a result list
Answered == Responded /\ response.status = 200

queryInfoOf == preprocessQuery(rawQuery)

\* the chunks the request searches: all, or those of documentId
searchedCorpus ==
    { r \in table : documentId = AbsentId \/ r.document_id = documentId }

\* the chunk contains the normalized query, case-insensitively
ContainsQuery(r) == includes(toLowerCase(r.content), queryInfoOf.processed)

ResultIdx == DOMAIN response.results

ReturnedAs(r, matchType) ==
    \E k \in ResultIdx : /\ response.results[k].id = r.id
                         /\ response.results[k].matchType = matchType

Failed(k) == ~hasData(settled[k])

NoStrategyFailed == \A k \in DOMAIN settled : ~Failed(k)

\* C11: a chunk of the searched corpus that contains the normalized query is
\* returned with match_type = exact, for every corpus size, max_results and
\* threshold (here: whenever every strategy answered with its rows).
C11_ExactSubstringReturned ==
    (Answered /\ NoStrategyFailed) =>
        \A r \in searchedCorpus : ContainsQuery(r) => ReturnedAs(r, "exact")

\* C11 (amended): when the substring strategy on the normalized query
\* answered with its rows and at most max_results chunks of the searched
\* corpus match its pattern (they are the chunks that contain the query,
\* and those that contain it with other characters where it has an
\* underscore), every chunk that contains the normalized query is returned
\* with match_type = exact, for every threshold of the range and whatever
\* the other strategies did.
C11_ExactSubstringWithinLimit ==
    (/\ Answered
     /\ ~Failed(2)
     /\ Cardinality(matchingRows(settled[2].strategy, documentId, table))
        <= maxResults)
    => \A r \in searchedCorpus : ContainsQuery(r) => ReturnedAs(r, "exact")

\* the query is inside a longer word of a chunk written with capitals, the
\* threshold is the top of the range, and the other strategies failed
C11_Witness ==
    /\ Answered
    /\ threshold = Points(100)
    /\ DOMAIN settled = 1..3
    /\ Failed(1) /\ ~Failed(2) /\ Failed(3)
    /\ \E r \in searchedCorpus :
          /\ ContainsQuery(r)
          /\ ~wordBoundaryTest(queryInfoOf.processed, toLowerCase(r.content))
          /\ r.content # toLowerCase(r.content)
          /\ ReturnedAs(r, "exact")

\* C12: the result list never holds more than max_results results.
C12_AtMostMaxResults ==
    Answered => Len(response.results) <= maxResults

\* C13: the result list is ordered by match-type priority descending, then
\* by score descending, and results of equal type and score are in ascending
\* chunk_index order.
C13_OrderedWithIndexTieBreak ==
    Answered =>
        \A i, j \in ResultIdx : i < j =>
            LET a == response.results[i]
                b == response.results[j]
            IN \/ typePriority[a.matchType] > typePriority[b.matchType]
               \/ /\ a.matchType = b.matchType
                  /\ a.searchScore > b.searchScore
               \/ /\ a.matchType = b.matchType
                  /\ a.searchScore = b.searchScore
                  /\ a.chunk_index <= b.chunk_index

\* C14: two requests with the same query, options and corpus are answered
\* with the same ordered result list (here: no strategy fails in either).
C14_SameListTwice ==
    (Answered /\ firstResponse.status = 200) =>
        response.results = firstResponse.results

\* C15: every result returned has score >= threshold.
C15_ScoreAtLeastThreshold ==
    Answered =>
        \A k \in ResultIdx : response.results[k].searchScore >= threshold

\* some candidate is kept and some candidate is dropped by the threshold
C15_Witness ==
    /\ Answered
    /\ response.count > 0
    /\ "totalFound" \in DOMAIN response
    /\ response.totalFound > response.count
    /\ threshold > 0

\* C16: the query "documnt" over the one chunk "the document is ready" with
\* threshold 10 returns that chunk with match_type = fuzzy and a score of
\* about 22.5 (within half a point), every strategy having answered.
C16_TypoFindsDocument ==
    (/\ Responded
     /\ rawQuery = Documnt
     /\ Cardinality(table) = 1
     /\ \A r \in table : includes(r.content, Document)
     /\ documentId = AbsentId
     /\ threshold = Points(10)
     /\ NoStrategyFailed)
    => /\ response.status = 200
       /\ Len(response.results) = 1
       /\ \A r \in table : ReturnedAs(r, "fuzzy")
       /\ 2 * response.results[1].searchScore >= Points(44)
       /\ 2 * response.results[1].searchScore <= Points(46)

----------------------------------------------------------------------------
(* Properties of levenshteinDistance.                                      *)

LevDone == levPc = "done"

editNeighbours(s, alphabet, maxLen) ==
    { SubSeq(s, 1, p - 1) \o SubSeq(s, p + 1, Len(s)) : p \in 1..Len(s) }
    \cup { [s EXCEPT ![p] = c] : p \in 1..Len(s), c \in alphabet }
    \cup (IF Len(s) < maxLen
          THEN { SubSeq(s, 1, p) \o <<c>> \o SubSeq(s, p + 1, Len(s)) :
                   p \in 0..Len(s), c \in alphabet }
          ELSE {})

\* the number of rounds of single edits after which target is reached
RECURSIVE editRounds(_, _, _, _, _)
editRounds(reached, target, alphabet, maxLen, n) ==
    IF target \in reached THEN n
    ELSE editRounds(
            reached \cup UNION { editNeighbours(s, alphabet, maxLen) :
                                   s \in reached },
            target, alphabet, maxLen, n + 1)

\* the classic edit distance, by exhaustive search: an optimal sequence of
\* edits needs no character outside b and no string longer than both
editDistance(a, b) ==
    editRounds({a}, b, Range(b), Max(Len(a), Len(b)), 0)

\* C18: for all strings a and b, the empty string included,
\* levenshteinDistance(a, b) is the minimum number of single-character
\* insertions, deletions and substitutions that transform a into b.
C18_IsEditDistance ==
    LevDone => distance = editDistance(levStr1, levStr2)

\* a pair of strings that needs a substitution and an insertion
C18_Witness ==
    /\ LevDone
    /\ Len(levStr1) > 0 /\ Len(levStr2) > Len(levStr1)
    /\ levStr1[1] # levStr2[1]
    /\ distance = Len(levStr2)

----------------------------------------------------------------------------
(* Properties of the search route when strategies fail.                    *)

\* the rows the strategies that did not fail answered
candidateRows ==
    UNION { Range(settled[k].data) : k \in { x \in DOMAIN settled : ~Failed(x) } }

SomeButNotAllFailed ==
    /\ \E k \in DOMAIN settled : Failed(k)
    /\ \E k \in DOMAIN settled : ~Failed(k)

\* C19: if some but not all strategies fail (rejected or answered with an
\* error), the request is answered normally, and the results are the
\* candidates of the other strategies that score at least the threshold,
\* each once.
C19_FailedStrategiesSkipped ==
    (Responded /\ SomeButNotAllFailed) =>
        /\ response.status = 200
        /\ { response.results[k].id : k \in ResultIdx }
           = { r.id : r \in { c \in candidateRows :
                   calculateSearchScore(c.content, queryInfoOf.processed,
                                        queryInfoOf.variations, TRUE).score
                   >= threshold } }
        /\ \A i, j \in ResultIdx :
              i # j => response.results[i].id # response.results[j].id

\* one strategy rejected, one answered with an error, and the rows of a
\* third are returned
C19_Witness ==
    /\ Responded
    /\ \E k \in DOMAIN settled : settled[k].status = "rejected"
    /\ \E k \in DOMAIN settled :
          settled[k].status = "fulfilled" /\ ~settled[k].hasData
    /\ response.status = 200
    /\ Len(response.results) > 0

\* C20: if all strategies fail, the answer is an empty result set together
\* with a failure signal: it differs from the answer of a search whose
\* strategies all succeeded and matched nothing.
C20_AllFailedIsSignalled ==
    (Responded /\ DOMAIN settled # {} /\ \A k \in DOMAIN settled : Failed(k))
    => /\ response.status = 200 => response.results = <<>>
       /\ response # emptyResponse(queryInfoOf)

----------------------------------------------------------------------------
(* Properties of the search route: the query.                              *)

\* C21: a request with an empty query (the parameter absent or empty) is
\* answered with a validation error, which is not a result set, and no
\* retrieval strategy is sent.
C21_EmptyQueryRejected ==
    (Responded /\ (rawQuery = AbsentText \/ rawQuery = <<>>)) =>
        /\ response.status = 400
        /\ "error" \in DOMAIN response
        /\ "results" \notin DOMAIN response
        /\ settled = <<>>

\* the request with q present and empty has been answered
C21_Witness ==
    Responded /\ rawQuery = <<>> /\ response.status = 400

----------------------------------------------------------------------------
(* Properties of the highlighting.                                         *)

isMarkTag(x) == x = markClose \/ \E n \in 0..100 : x = markOpen(n)

\* the highlighted text without the tags
stripMarks(h) == filterSeq(h, { x \in Range(h) : ~isMarkTag(x) })

\* a piece of the highlighted text is an annotated token
Annotated(piece) == Len(piece) > 0 /\ isMarkTag(piece[1])

\* some variation is more than 0.6 similar to the word
SimilarToVariation(word) ==
    \E v \in Range(queryInfoOf.variations) :
        LET similarity == calculateSimilarity(word, v) IN
        10 * similarity.num > 6 * similarity.den

\* the pieces of the content of result k, and those of its highlighted text
\* (a tag has no white space)
contentPieces(k) == splitCapturing(response.results[k].content, <<>>)
highlightedPieces(k) == splitCapturing(response.results[k].highlighted, <<>>)

TextPreserved(k) ==
    /\ stripMarks(response.results[k].highlighted) = response.results[k].content
    /\ Len(highlightedPieces(k)) = Len(contentPieces(k))

\* C22: removing the annotations from highlighted_content gives the chunk
\* content character for character, and a white-space-delimited token is
\* annotated only if the similarity of the token to some query variation
\* exceeds 0.6.
C22_AnnotatedOnlyIfTokenSimilar ==
    Answered => \A k \in ResultIdx :
        /\ TextPreserved(k)
        /\ \A x \in DOMAIN contentPieces(k) :
              Annotated(highlightedPieces(k)[x])
              => SimilarToVariation(contentPieces(k)[x])

\* C22 (amended): removing the annotations from highlighted_content gives
\* the chunk content character for character, and a token is annotated if
\* and only if its cleaned form (lower case, non-word characters removed)
\* is not empty and its similarity to some query variation exceeds 0.6.
C22_AnnotatedIffCleanedSimilar ==
    Answered => \A k \in ResultIdx :
        /\ TextPreserved(k)
        /\ \A x \in DOMAIN contentPieces(k) :
              Annotated(highlightedPieces(k)[x])
              <=> /\ cleanWord(contentPieces(k)[x]) # <<>>
                  /\ SimilarToVariation(cleanWord(contentPieces(k)[x]))

\* a result with an annotated token that has non-word characters, with a
\* token left as it is, and with white space between them
C22_Witness ==
    /\ Answered
    /\ \E k \in ResultIdx :
          /\ \E x \in DOMAIN contentPieces(k) :
                /\ Annotated(highlightedPieces(k)[x])
                /\ cleanWord(contentPieces(k)[x])
                   # toLowerCase(contentPieces(k)[x])
          /\ \E x \in DOMAIN contentPieces(k) :
                /\ cleanWord(contentPieces(k)[x]) # <<>>
                /\ ~Annotated(highlightedPieces(k)[x])

----------------------------------------------------------------------------
(* Properties of the scores and of the accepted queries.                   *)

\* C28: a scored candidate has match type trigram if and only if its score
\* is 0 (with threshold 0 every candidate is returned), and with a
\* threshold above 0 no result has match type trigram.
C28_TrigramIffZero ==
    Answered => \A k \in ResultIdx :
        /\ response.results[k].matchType = "trigram"
           <=> response.results[k].searchScore = 0
        /\ threshold > 0 => response.results[k].matchType # "trigram"

\* two candidates without any signal are returned, with score 0
C28_Witness ==
    /\ Answered
    /\ Len(response.results) > 1
    /\ \A k \in ResultIdx : /\ response.results[k].matchType = "trigram"
                             /\ response.results[k].searchScore = 0

\* C29: for every query that is not refused, the normalized query is not
\* empty, and no chunk is returned as an exact match of the empty string.
C29_ProcessedNonEmpty ==
    (Responded /\ response.status # 400) =>
        /\ queryInfoOf.processed # <<>>
        /\ \A k \in ResultIdx :
              ~(queryInfoOf.processed = <<>>
                /\ response.results[k].matchType = "exact")

----------------------------------------------------------------------------
(* Properties of the parse run.                                            *)

ParseReturned == parsePc = "returned"

\* the rows a complete insertion by run r leaves in the table
chunksOfRun(r) ==
    { [content_hash |-> runChunks[k], run |-> r] : k \in 1..Len(runChunks) }

\* the current request was made for a document that had the chunks of a
\* complete earlier run stored, and its run got as far as the deletion of
\* the old chunks and the first insert
ParsedAgain ==
    /\ ParseReturned
    /\ storedAtStart # {}
    /\ \E r \in 1..runNo : storedAtStart = chunksOfRun(r)
    /\ (edgeResponse = 200 \/ insertFailed)

\* C23: after a document that already has stored chunks was parsed again,
\* the table holds for it exactly the chunks of one segmentation run and no
\* chunk twice; chunks of the new run are stored only after the chunks of
\* the earlier runs were deleted.
C23_ReparseIdempotent ==
    ParsedAgain =>
        /\ \E r \in 1..runNo : stored = chunksOfRun(r)
        /\ \A a \in stored : \A b \in stored :
              a.content_hash = b.content_hash => a = b
        /\ (\E a \in stored : a.run = runNo)
              => \A b \in stored : b.run = runNo

\* C24: once a trigger-parse request that set the status to 'processing'
\* has returned, the status is 'ready' or 'error'.
C24_NeverLeftProcessing ==
    (ParseReturned /\ setProcessing) => docStatus \in {"ready", "error"}

\* C26: the run that set the status to 'ready' has inserted every batch of
\* the chunk sequence, and none of its batch inserts failed.
C26_ReadyOnlyAfterAllBatches ==
    (runNo > 0 /\ readyRun = runNo) =>
        /\ ~insertFailed
        /\ batchStart >= Len(runChunks)
        /\ stored = chunksOfRun(runNo)

\* a second run over two batches ends with the status 'ready'
C26_Witness ==
    /\ ParseReturned
    /\ runNo = 2
    /\ readyRun = runNo
    /\ Len(runChunks) > BATCH_SIZE
    /\ docStatus = "ready"

----------------------------------------------------------------------------
(* Properties of the Home page and of DocumentStatus.                      *)

\* a poll of the component now mounted has read status 'error'
ErrorObserved == Mounted /\ errorSeenBy = mountNo

\* C25: once a poll of the mounted DocumentStatus has read status 'error',
\* the component issues no further status request while it stays mounted.
C25_NoRequestAfterError ==
    [][ErrorObserved => pollsIssued' = pollsIssued]_vars

\* C30: while a documentId is set, isProcessing and isComplete are not both
\* true, and the chunk view is shown only for a document for which a poll
\* has read 'ready'.
C30_ViewsExclusive ==
    homeDocumentId # 0 =>
        /\ ~(isProcessing /\ isComplete)
        /\ chunksShown(homeDocumentId, isComplete)
              => homeDocumentId \in observedReady

====
